---- MODULE Spec2Model ----
(***************************************************************************)
(* A model of promptis (src/src/lib.rs): the Input builder and its read    *)
(* operations read, wait, wait_opts and choose.                            *)
(*                                                                         *)
(* Text that the code inspects character by character (input lines, the   *)
(* quit trigger) is a sequence of one-character strings.  Text that is     *)
(* only printed (prompts, messages, option items) is a string.             *)
(*                                                                         *)
(* The program is sequential and blocks only in stdin().read_line, so the  *)
(* state is observed at those points: a Call action runs the operation up  *)
(* to its first read_line, and ReadLine runs it from the line's arrival to *)
(* the operation's return, to the process's exit, or to the next           *)
(* read_line.  Everything written to stdout, and every line read, is       *)
(* appended to trace in program order.                                     *)
(***************************************************************************)
EXTENDS Integers, Sequences, FiniteSets, TLC

\* ------------------------------------------------------------------ bounds

\* Read attempts (lines read) one call may make before the model stops it.
MaxAttempts == 2

\* ---------------------------------------------------------------- options

\* Option<String> for the printed error message, Option<String> for the quit
\* trigger (characters), and Option<T> for a parsed response.
NoneMsg == [some |-> FALSE, v |-> ""]
SomeMsg(m) == [some |-> TRUE, v |-> m]
NoneQuit == [some |-> FALSE, v |-> <<>>]
SomeQuit(q) == [some |-> TRUE, v |-> q]
NoneVal == [some |-> FALSE, v |-> 0]
SomeVal(x) == [some |-> TRUE, v |-> x]

\* --------------------------------------------------------------- the world

\* What the user may type on a line (without the line terminator).
Contents ==
    { <<>>, <<"y">>, <<"Y">>, <<"n">>, <<"N">>, <<"1">>, <<" ", "2", " ">>,
      <<"3">>, <<"0">>, <<"Y", "e", "s">>, <<"q", "u", "i", "t">> }

\* What read_line leaves in the buffer on success: the line with its
\* terminator, or nothing at end of input.
RawLines == { c \o <<"\n">> : c \in Contents } \cup { <<>> }

\* What read_line may leave in the buffer when it fails: nothing, or the
\* bytes read before the error.
PartialBufs == { <<>>, <<"1">> }

\* Arguments the callers pass.
Prompts == { "", "Enter: " }
Quits == { <<"q", "u", "i", "t">>, <<"1">>, <<"y">> }
ErrMsgs == { "Bad input" }
Targets == { "i32", "char", "String" }
OptLists == { <<>>, <<"Yes", "No">> }
OptPrompts == { "Your choice: " }
ChoosePrompts == { "Continue?" }

\* ------------------------------------------------------------ str::trim

IsWhitespace(c) == c \in { " ", "\t", "\n", "\r" }

RECURSIVE TrimStart(_)
TrimStart(s) ==
    IF s # <<>> /\ IsWhitespace(Head(s)) THEN TrimStart(Tail(s)) ELSE s

RECURSIVE TrimEnd(_)
TrimEnd(s) ==
    IF s # <<>> /\ IsWhitespace(s[Len(s)])
    THEN TrimEnd(SubSeq(s, 1, Len(s) - 1))
    ELSE s

Trim(s) == TrimEnd(TrimStart(s))

\* ------------------------------------------------------------ FromStr

Digits == <<"0", "1", "2", "3", "4", "5", "6", "7", "8", "9">>

IsDigit(c) == \E i \in 1..10 : Digits[i] = c

DigitVal(c) == (CHOOSE i \in 1..10 : Digits[i] = c) - 1

AllDigits(s) == \A i \in 1..Len(s) : IsDigit(s[i])

RECURSIVE Magnitude(_)
Magnitude(s) ==
    IF s = <<>> THEN 0
    ELSE 10 * Magnitude(SubSeq(s, 1, Len(s) - 1)) + DigitVal(s[Len(s)])

\* The integer parsers also reject a value outside the type's range.  Every
\* line of Contents holds fewer than ten digits, which fits both i32 and
\* usize, so that branch is never taken here and is not modelled.

\* <i32 as FromStr>::from_str: an optional sign, then one or more digits.
ParseI32(s) ==
    LET signed == s # <<>> /\ Head(s) \in { "+", "-" }
        digits == IF signed THEN Tail(s) ELSE s
        neg == signed /\ Head(s) = "-"
    IN  IF digits = <<>> \/ ~AllDigits(digits) THEN NoneVal
        ELSE SomeVal(IF neg THEN 0 - Magnitude(digits) ELSE Magnitude(digits))

\* <usize as FromStr>::from_str: an optional "+", then one or more digits;
\* a "-" is an invalid digit.
ParseUsize(s) ==
    LET plus == s # <<>> /\ Head(s) = "+"
        digits == IF plus THEN Tail(s) ELSE s
    IN  IF digits = <<>> \/ ~AllDigits(digits) THEN NoneVal
        ELSE SomeVal(Magnitude(digits))

\* <char as FromStr>::from_str: exactly one character.
ParseChar(s) == IF Len(s) = 1 THEN SomeVal(s[1]) ELSE NoneVal

\* A String parser that refuses the empty text.
ParseString_nonempty(s) == IF s = <<>> THEN NoneVal ELSE SomeVal(s)

\* <String as FromStr>::from_str: never fails.
ParseString(s) == SomeVal(s)

\* buffer.trim().parse().ok() at target type T
Parse(T, s) ==
    CASE T = "i32" -> ParseI32(s)
      [] T = "usize" -> ParseUsize(s)
      [] T = "char" -> ParseChar(s)
      [] T = "String" -> ParseString(s)

\* ------------------------------------------------- char::to_ascii_uppercase

Lower == <<"a", "b", "c", "d", "e", "f", "g", "h", "i", "j", "k", "l", "m",
           "n", "o", "p", "q", "r", "s", "t", "u", "v", "w", "x", "y", "z">>
Upper == <<"A", "B", "C", "D", "E", "F", "G", "H", "I", "J", "K", "L", "M",
           "N", "O", "P", "Q", "R", "S", "T", "U", "V", "W", "X", "Y", "Z">>

\* A comparison that forgets the case conversion.
to_ascii_uppercase_id(c) == c

to_ascii_uppercase(c) ==
    IF \E i \in 1..26 : Lower[i] = c
    THEN Upper[CHOOSE i \in 1..26 : Lower[i] = c]
    ELSE c

\* ------------------------------------------------------------------ trace

\* One entry of trace.  k says which statement produced it:
\*   "prompt"  print!("{}", user_prompt) followed by the flush   (text)
\*   "line"    stdin().read_line returned                        (raw: buffer,
\*             text: "Ok" or "Err", the io::Result)
\*   "ioerr"   handle_io's "IO Error: ..." line                  (text: which call)
\*   "errmsg"  check_error's println!("{}", msg)                 (text)
\*   "opt"     wait_opts' println!("{}. {}", i + 1, v)           (n: i + 1, text: v)
\*   "bounds"  wait_opts' "Please enter a number within the bounds 1..=n" (n)
Ev(k, text, n, raw) == [k |-> k, text |-> text, n |-> n, raw |-> raw]

Count(tr, k) == Cardinality({ i \in DOMAIN tr : tr[i].k = k })

\* Lines read so far by the current call.
Attempts(tr) == Count(tr, "line")

\* ------------------------------------------------------------ struct Input

new == [user_prompt |-> "", user_quit |-> NoneQuit, user_errmsg |-> NoneMsg]

prompt(inp, pt) == [inp EXCEPT !.user_prompt = pt]

quit(inp, q) == [inp EXCEPT !.user_quit = SomeQuit(q)]

err_msg(inp, m) == [inp EXCEPT !.user_errmsg = SomeMsg(m)]

\* #[derive(Clone)]
clone(inp) == inp

\* A check_quit that compares the line as read, terminator and all.
check_quit_untrimmed(inp, message) ==
    inp.user_quit.some /\ inp.user_quit.v = message

\* TRUE when check_quit calls std::process::exit(0).
check_quit(inp, message) ==
    inp.user_quit.some /\ inp.user_quit.v = Trim(message)

\* The status check_quit passes to std::process::exit.
QuitStatus == 0

\* A check_error that does not look at the response.
check_error_always(inp, response, tr) ==
    IF inp.user_errmsg.some
    THEN Append(tr, Ev("errmsg", inp.user_errmsg.v, 0, <<>>))
    ELSE tr

\* A check_error that prints nothing.
check_error_silent(inp, response, tr) == tr

check_error(inp, response, tr) ==
    IF ~response.some /\ inp.user_errmsg.some
    THEN Append(tr, Ev("errmsg", inp.user_errmsg.v, 0, <<>>))
    ELSE tr

\* A handle_io that drops the error without a word.
handle_io_silent(tr, failed, what) == tr

handle_io(tr, failed, what) ==
    IF failed THEN Append(tr, Ev("ioerr", what, 0, <<>>)) ELSE tr

\* A get_data that flushes and reads without writing the prompt.
get_data_prompt_unwritten(inp, tr, flushFail) ==
    handle_io(tr, flushFail, "flush")

\* get_data up to the point where it blocks in read_line: the prompt and
\* the flush, which may fail.
get_data_prompt(inp, tr, flushFail) ==
    handle_io(Append(tr, Ev("prompt", inp.user_prompt, 0, <<>>)),
              flushFail, "flush")

\* A get_data that gives up the process when read_line fails.
get_data_read_abort(inp, T, tr, buffer, readFail) ==
    LET tr1 == handle_io(Append(tr, Ev("line", IF readFail THEN "Err" ELSE "Ok",
                                       0, buffer)),
                         readFail, "read_line")
    IN  IF check_quit(inp, buffer) \/ readFail
        THEN [exit |-> TRUE, response |-> NoneVal, trace |-> tr1]
        ELSE [exit |-> FALSE, response |-> Parse(T, Trim(buffer)), trace |-> tr1]

\* get_data from read_line's return: the read may have failed, then the quit
\* check, then the parse.
get_data_read(inp, T, tr, buffer, readFail) ==
    LET tr1 == handle_io(Append(tr, Ev("line", IF readFail THEN "Err" ELSE "Ok",
                                       0, buffer)),
                         readFail, "read_line")
    IN  IF check_quit(inp, buffer)
        THEN [exit |-> TRUE, response |-> NoneVal, trace |-> tr1]
        ELSE [exit |-> FALSE, response |-> Parse(T, Trim(buffer)), trace |-> tr1]

\* ------------------------------------------------------- call outcomes

\* The state a call is in when the model next observes it.
Returned(v, tr) == [pc |-> "done", result |-> SomeVal(v), trace |-> tr]
Exited(tr) == [pc |-> "exited", result |-> NoneVal, trace |-> tr]
Blocked(tr) == [pc |-> "reading", result |-> NoneVal, trace |-> tr]

\* A read that asks again when the line does not parse.
read_after_retry(inp, T, tr, buffer, readFail) ==
    LET g == get_data_read(inp, T, tr, buffer, readFail)
    IN  IF g.exit THEN Exited(g.trace)
        ELSE IF g.response.some THEN Returned(g.response, g.trace)
        ELSE Blocked(get_data_prompt(inp, g.trace, FALSE))

\* A read that reports a failed parse as wait does.
read_after_errmsg(inp, T, tr, buffer, readFail) ==
    LET g == get_data_read(inp, T, tr, buffer, readFail)
    IN  IF g.exit THEN Exited(g.trace)
        ELSE Returned(g.response, check_error(inp, g.response, g.trace))

\* read: get_data once, whatever it gives.
read_after(inp, T, tr, buffer, readFail) ==
    LET g == get_data_read(inp, T, tr, buffer, readFail)
    IN  IF g.exit THEN Exited(g.trace) ELSE Returned(g.response, g.trace)

\* A wait whose quit check comes after the error message.
wait_after_late_quit(inp, T, tr, buffer, readFail, flushFail) ==
    LET g == get_data_read(inp, T, tr, buffer, readFail)
        tr2 == check_error(inp, g.response, g.trace)
    IN  IF g.exit THEN Exited(tr2)
        ELSE IF g.response.some THEN Returned(g.response.v, tr2)
        ELSE Blocked(get_data_prompt(inp, tr2, flushFail))

\* A wait that gives up the process on the first line that does not parse.
wait_after_give_up(inp, T, tr, buffer, readFail, flushFail) ==
    LET g == get_data_read(inp, T, tr, buffer, readFail)
        tr2 == check_error(inp, g.response, g.trace)
    IN  IF g.exit THEN Exited(g.trace)
        ELSE IF g.response.some THEN Returned(g.response.v, tr2)
        ELSE Exited(tr2)

\* One turn of wait's loop from read_line's return: get_data, check_error,
\* then the loop test.
wait_after(inp, T, tr, buffer, readFail, flushFail) ==
    LET g == get_data_read(inp, T, tr, buffer, readFail)
        tr2 == check_error(inp, g.response, g.trace)
    IN  IF g.exit THEN Exited(g.trace)
        ELSE IF g.response.some THEN Returned(g.response.v, tr2)
        ELSE Blocked(get_data_prompt(inp, tr2, flushFail))

\* A wait_opts that never lists its options.
print_opts_none(tr, os) == tr

\* for (i, v) in opts.iter().enumerate() { println!("{}. {}", i + 1, v) }
print_opts(tr, os) == tr \o [i \in 1..Len(os) |-> Ev("opt", os[i], i, <<>>)]

\* A range that excludes its upper end: (1..opts.len()).contains(&result)
in_bounds_exclusive(k, os) == 1 <= k /\ k < Len(os)

\* (1..=opts.len()).contains(&result)
in_bounds(k, os) == 1 <= k /\ k <= Len(os)

\* A wait_opts that returns an empty choice for a number out of bounds.
wait_opts_after_no_choice(c, os, pt, tr, buffer, readFail, flushFail) ==
    LET w == wait_after(c, "usize", tr, buffer, readFail, flushFail)
    IN  IF w.pc # "done" THEN w @@ [index |-> NoneVal, ic |-> c]
        ELSE IF in_bounds(w.result.v, os)
        THEN Returned(os[(w.result.v - 1) + 1], w.trace)
                 @@ [index |-> SomeVal(w.result.v - 1), ic |-> c]
        ELSE Returned("", w.trace) @@ [index |-> NoneVal, ic |-> c]

\* A wait_opts that lists the options before the first prompt only.
wait_opts_after_list_once(c, os, pt, tr, buffer, readFail, flushFail) ==
    LET w == wait_after(c, "usize", tr, buffer, readFail, flushFail)
    IN  IF w.pc # "done" THEN w @@ [index |-> NoneVal, ic |-> c]
        ELSE IF in_bounds(w.result.v, os)
        THEN Returned(os[(w.result.v - 1) + 1], w.trace)
                 @@ [index |-> SomeVal(w.result.v - 1), ic |-> c]
        ELSE Blocked(get_data_prompt(prompt(c, pt),
                        Append(w.trace, Ev("bounds", "", Len(os), <<>>)),
                        flushFail))
                 @@ [index |-> NoneVal, ic |-> prompt(c, pt)]

\* wait_opts from read_line's return.  A line that does not parse stays in
\* the inner wait loop; a number out of bounds goes round the outer loop.
wait_opts_after(c, os, pt, tr, buffer, readFail, flushFail) ==
    LET w == wait_after(c, "usize", tr, buffer, readFail, flushFail)
    IN  IF w.pc # "done" THEN w @@ [index |-> NoneVal, ic |-> c]
        ELSE IF in_bounds(w.result.v, os)
        THEN Returned(os[(w.result.v - 1) + 1], w.trace)
                 @@ [index |-> SomeVal(w.result.v - 1), ic |-> c]
        ELSE Blocked(get_data_prompt(prompt(c, pt),
                        print_opts(Append(w.trace,
                                          Ev("bounds", "", Len(os), <<>>)), os),
                        flushFail))
                 @@ [index |-> NoneVal, ic |-> prompt(c, pt)]

\* format!("{} [y/n] ", p)
yn_prompt(pt) == pt \o " [y/n] "

\* A choose that prompts through Input::new() instead of a clone of self.
choose_after_fresh(slf, pt, tr, buffer, readFail, flushFail) ==
    LET c == prompt(new, yn_prompt(pt))
        w == wait_after(c, "char", tr, buffer, readFail, flushFail)
    IN  IF w.pc # "done" THEN w
        ELSE CASE to_ascii_uppercase(w.result.v) = "Y" -> Returned(TRUE, w.trace)
               [] to_ascii_uppercase(w.result.v) = "N" -> Returned(FALSE, w.trace)
               [] OTHER -> Blocked(get_data_prompt(c, w.trace, flushFail))

\* choose from read_line's return.  A line that is not one character stays
\* in the inner wait loop; a character other than y or n goes round the
\* outer loop.
choose_after(slf, pt, tr, buffer, readFail, flushFail) ==
    LET c == prompt(clone(slf), yn_prompt(pt))
        w == wait_after(c, "char", tr, buffer, readFail, flushFail)
    IN  IF w.pc # "done" THEN w
        ELSE CASE to_ascii_uppercase(w.result.v) = "Y" -> Returned(TRUE, w.trace)
               [] to_ascii_uppercase(w.result.v) = "N" -> Returned(FALSE, w.trace)
               [] OTHER -> Blocked(get_data_prompt(
                               prompt(clone(slf), yn_prompt(pt)), w.trace, flushFail))

\* ------------------------------------------------------------------ state

VARIABLES
    self,      \* the caller's Input
    configured, \* the Input as the caller's builder calls left it
    ic,        \* the clone wait_opts and choose work on
    op,        \* the operation in progress or last returned: "none", "read", ...
    T,         \* the target type get_data parses to
    opts,      \* wait_opts' opts
    p,         \* wait_opts' and choose's p
    pc,        \* "idle", "reading" (blocked in read_line), "done", "exited"
    trace,     \* what the current call printed and read, in order
    result,    \* the value the call returned (Option: none until it returns)
    index,     \* wait_opts' index (Option: none until assigned)
    status,    \* the process's exit status (Option: none while it runs)
    flush_err  \* the environment: stdout().flush() fails during this call

vars == <<self, configured, ic, op, T, opts, p, pc, trace, result, index, status,
          flush_err>>

Init ==
    /\ self = new
    /\ configured = new
    /\ ic = new
    /\ op = "none"
    /\ T = "String"
    /\ opts = <<>>
    /\ p = ""
    /\ pc = "idle"
    /\ trace = <<>>
    /\ result = NoneVal
    /\ index = NoneVal
    /\ status = NoneVal
    /\ flush_err = FALSE

\* The caller is between calls.
AtCaller == pc = "idle"

\* The model follows a call for at most MaxAttempts lines.
MayRead == pc = "reading" /\ Attempts(trace) < MaxAttempts

\* The caller's frame between calls: no operation in progress, nothing
\* printed, nothing returned.
NoCall ==
    /\ ic' = new
    /\ op' = "none"
    /\ T' = "String"
    /\ opts' = <<>>
    /\ p' = ""
    /\ pc' = "idle"
    /\ trace' = <<>>
    /\ result' = NoneVal
    /\ index' = NoneVal
    /\ flush_err' = FALSE
    /\ UNCHANGED status

\* ---------------------------------------------------------------- builders

Prompt(pt) ==
    /\ AtCaller
    /\ self' = prompt(self, pt)
    /\ configured' = self'
    /\ NoCall

Quit(q) ==
    /\ AtCaller
    /\ self' = quit(self, q)
    /\ configured' = self'
    /\ NoCall

ErrMsg(m) ==
    /\ AtCaller
    /\ self' = err_msg(self, m)
    /\ configured' = self'
    /\ NoCall

\* ------------------------------------------------------------------- calls

\* A call begins and runs to its first read_line.  slf is the receiver as
\* the call leaves it (every operation takes &self), c the clone it works
\* on.  Whether stdout can be flushed is the environment's choice, made once
\* for the call.
Begin(o, t, slf, c, os, pt, tr, flushFail) ==
    /\ AtCaller
    /\ self' = slf
    /\ flush_err' = flushFail
    /\ op' = o
    /\ T' = t
    /\ ic' = c
    /\ opts' = os
    /\ p' = pt
    /\ pc' = "reading"
    /\ trace' = tr
    /\ result' = NoneVal
    /\ index' = NoneVal
    /\ UNCHANGED <<configured, status>>

CallRead(t, flushFail) ==
    Begin("read", t, self, new, <<>>, "", get_data_prompt(self, <<>>, flushFail),
          flushFail)

CallWait(t, flushFail) ==
    Begin("wait", t, self, new, <<>>, "", get_data_prompt(self, <<>>, flushFail),
          flushFail)

\* A wait_opts that sets p on the receiver itself (&mut self, no clone).
CallWaitOpts_in_place(os, pt, flushFail) ==
    LET c == prompt(self, pt)
    IN  Begin("wait_opts", "usize", c, c, os, pt,
              get_data_prompt(c, print_opts(<<>>, os), flushFail), flushFail)

CallWaitOpts(os, pt, flushFail) ==
    LET c == prompt(clone(self), pt)
    IN  Begin("wait_opts", "usize", self, c, os, pt,
              get_data_prompt(c, print_opts(<<>>, os), flushFail), flushFail)

CallChoose(pt, flushFail) ==
    LET c == prompt(clone(self), yn_prompt(pt))
    IN  Begin("choose", "char", self, c, <<>>, pt,
              get_data_prompt(c, <<>>, flushFail), flushFail)

\* ------------------------------------------------------- a line arrives

\* The call moves to the state nxt; an exit is std::process::exit(0).
Continue(nxt) ==
    /\ pc' = nxt.pc
    /\ trace' = nxt.trace
    /\ result' = nxt.result
    /\ status' = IF nxt.pc = "exited" THEN SomeVal(QuitStatus) ELSE status
    /\ UNCHANGED <<self, configured, op, T, opts, p, flush_err>>

ReadLineRead(buffer, readFail) ==
    /\ MayRead /\ op = "read"
    /\ Continue(read_after(self, T, trace, buffer, readFail))
    /\ UNCHANGED <<ic, index>>

ReadLineWait(buffer, readFail) ==
    /\ MayRead /\ op = "wait"
    /\ Continue(wait_after(self, T, trace, buffer, readFail, flush_err))
    /\ UNCHANGED <<ic, index>>

ReadLineWaitOpts(buffer, readFail) ==
    /\ MayRead /\ op = "wait_opts"
    /\ LET nxt == wait_opts_after(ic, opts, p, trace, buffer, readFail, flush_err)
       IN  /\ Continue(nxt)
           /\ index' = nxt.index
           /\ ic' = nxt.ic

ReadLineChoose(buffer, readFail) ==
    /\ MayRead /\ op = "choose"
    /\ Continue(choose_after(self, p, trace, buffer, readFail, flush_err))
    /\ ic' = prompt(clone(self), yn_prompt(p))
    /\ UNCHANGED index

\* The call has returned and its caller goes on, with the same Input.
Return ==
    /\ pc = "done"
    /\ UNCHANGED <<self, configured>>
    /\ NoCall

\* What read_line can do: succeed with a line, or fail with part of one.
Reads == (RawLines \X { FALSE }) \cup (PartialBufs \X { TRUE })

Next ==
    \/ \E pt \in Prompts : Prompt(pt)
    \/ \E q \in Quits : Quit(q)
    \/ \E m \in ErrMsgs : ErrMsg(m)
    \/ \E t \in Targets, ff \in BOOLEAN : CallRead(t, ff)
    \/ \E t \in Targets, ff \in BOOLEAN : CallWait(t, ff)
    \/ \E os \in OptLists, pt \in OptPrompts, ff \in BOOLEAN : CallWaitOpts(os, pt, ff)
    \/ \E pt \in ChoosePrompts, ff \in BOOLEAN : CallChoose(pt, ff)
    \/ \E r \in Reads : ReadLineRead(r[1], r[2])
    \/ \E r \in Reads : ReadLineWait(r[1], r[2])
    \/ \E r \in Reads : ReadLineWaitOpts(r[1], r[2])
    \/ \E r \in Reads : ReadLineChoose(r[1], r[2])
    \/ Return

Spec == Init /\ [][Next]_vars

\* ============================================================== properties

\* Positions of the lines read by the current call.
LineIdx == { i \in DOMAIN trace : trace[i].k = "line" }

LastLineIdx == CHOOSE i \in LineIdx : \A j \in LineIdx : j <= i

\* The trimmed text of the line read at position i.
Trimmed(i) == Trim(trace[i].raw)

\* The line at position i is the caller's quit trigger.
IsQuit(i) == self.user_quit.some /\ Trimmed(i) = self.user_quit.v

\* The position just before the next line read after position i (the end of
\* trace when there is none).
SegEnd(i) ==
    IF \E j \in LineIdx : j > i
    THEN (CHOOSE j \in LineIdx : j > i /\ \A l \in LineIdx : l > i => j <= l) - 1
    ELSE Len(trace)

NotIoErr(e) == e.k # "ioerr"

\* What the program printed between the line at position i and the next
\* read, handle_io's I/O diagnostics aside.
Printed(i) == SelectSeq(SubSeq(trace, i + 1, SegEnd(i)), NotIoErr)

PromptEv(text) == Ev("prompt", text, 0, <<>>)

\* The caller's error message as printed: one line, or nothing when unset.
ErrSeq ==
    IF self.user_errmsg.some
    THEN << Ev("errmsg", self.user_errmsg.v, 0, <<>>) >>
    ELSE << >>

\* C1: in read, wait, wait_opts and choose, at every target type and on every
\* attempt, a line whose trimmed text equals the configured quit trigger
\* ends the process with exit status 0, and the operation returns no value.
C1_QuitExits ==
    \A i \in LineIdx :
        IsQuit(i) =>
            /\ pc = "exited"
            /\ status = SomeVal(0)
            /\ ~result.some
            /\ i = LastLineIdx

\* C1's case: a wait that retried once is ended by the trigger on its second
\* line.
C1_Witness ==
    /\ op = "wait" /\ T = "i32"
    /\ pc = "exited"
    /\ Attempts(trace) = 2
    /\ IsQuit(LastLineIdx)

\* C2: the quit check comes before the parse and before any error message:
\* after a line equal to the trigger nothing more is printed for it (no
\* error message, no bounds diagnostic, no prompt), no value is returned and
\* wait_opts assigns no index, also when the line is a valid value of the
\* target type.
C2_QuitBeforeParse ==
    \A i \in LineIdx :
        IsQuit(i) =>
            /\ Printed(i) = << >>
            /\ SegEnd(i) = Len(trace)
            /\ ~result.some
            /\ ~index.some

\* C2's case: the trigger "1" is also a valid selection in wait_opts, and an
\* error message is configured.
C2_Witness ==
    /\ op = "wait_opts" /\ opts = <<"Yes", "No">>
    /\ self.user_errmsg.some
    /\ pc = "exited"
    /\ IsQuit(LastLineIdx)
    /\ Parse("usize", Trimmed(LastLineIdx)).some
    /\ in_bounds(Parse("usize", Trimmed(LastLineIdx)).v, opts)

\* C3: read prompts once, reads one line and never retries; it returns
\* Some(value) when the trimmed line is a valid encoding of T and None when
\* it is not (reading.rs: "Yes" is no i32, " 2 " is 2).
C3_ReadOnce ==
    op = "read" =>
        /\ Count(trace, "prompt") = 1
        /\ pc = "reading" <=> Attempts(trace) = 0
        /\ Attempts(trace) <= 1
        /\ pc = "done" =>
            /\ result.some
            /\ result.v = Parse(T, Trimmed(LastLineIdx))
            /\ (T = "i32" /\ Trimmed(LastLineIdx) = <<"Y", "e", "s">>)
                   => result.v = NoneVal
            /\ (T = "i32" /\ trace[LastLineIdx].raw = <<" ", "2", " ", "\n">>)
                   => result.v = SomeVal(2)
            /\ (T = "char" /\ Trimmed(LastLineIdx) = << >>) => result.v = NoneVal
        /\ pc = "exited" => IsQuit(LastLineIdx)

\* C3's case: read returned None for a line that is no i32.
C3_Witness ==
    /\ op = "read" /\ T = "i32"
    /\ pc = "done"
    /\ result.v = NoneVal
    /\ Trimmed(LastLineIdx) = <<"Y", "e", "s">>

\* C4: wait returns only after a successful parse.  The value returned is the
\* parse of the last line read; every line before it failed to parse; after
\* each failed line the error message, when set, is printed exactly once and
\* before the next prompt, and when unset nothing is printed but the prompt.
C4_WaitUntilValid ==
    op = "wait" =>
        /\ \A i \in LineIdx :
              IF IsQuit(i) THEN pc = "exited"
              ELSE IF Parse(T, Trimmed(i)).some
              THEN /\ i = LastLineIdx
                   /\ pc = "done"
                   /\ result = Parse(T, Trimmed(i))
                   /\ Printed(i) = << >>
              ELSE /\ Printed(i) = ErrSeq \o << PromptEv(self.user_prompt) >>
                   /\ i = LastLineIdx => pc = "reading"
        /\ pc = "done" => LineIdx # {}
        /\ Count(trace, "errmsg") =
              IF self.user_errmsg.some
              THEN Cardinality({ i \in LineIdx :
                                   ~IsQuit(i) /\ ~Parse(T, Trimmed(i)).some })
              ELSE 0

\* C4's case: wait returned on its second line, after printing the error
\* message for the first.
C4_Witness ==
    /\ op = "wait" /\ T = "i32"
    /\ pc = "done"
    /\ Attempts(trace) = 2
    /\ self.user_errmsg.some
    /\ Count(trace, "errmsg") = 1

\* The receiver without its error message.
NoErrMsg(inp) == [inp EXCEPT !.user_errmsg = NoneMsg]

\* C5: setting the error message does not change read.  What read printed and
\* returned is what a receiver with no error message prints and returns on
\* the same input, and read never prints the error message.
C5_ReadIgnoresErrMsg ==
    op = "read" =>
        /\ Count(trace, "errmsg") = 0
        /\ LET start == get_data_prompt(NoErrMsg(self), << >>, flush_err)
           IN  IF LineIdx = {} THEN trace = start
               ELSE LET other == read_after(NoErrMsg(self), T, start,
                                            trace[LastLineIdx].raw,
                                            trace[Len(trace)].k = "ioerr")
                    IN  /\ trace = other.trace
                        /\ result = other.result
                        /\ pc = other.pc

\* C5's case: read failed to parse with an error message configured.
C5_Witness ==
    /\ op = "read" /\ T = "char"
    /\ self.user_errmsg.some
    /\ pc = "done"
    /\ result.v = NoneVal

\* The option list as wait_opts prints it: "1. first", "2. second", ...
OptList == [j \in 1..Len(opts) |-> Ev("opt", opts[j], j, <<>>)]

\* "Please enter a number within the bounds 1..=n"
BoundsEv == Ev("bounds", "", Len(opts), <<>>)

\* The line at position i as wait_opts parses it.
Sel(i) == Parse("usize", Trimmed(i))

\* The line at position i is an integer outside 1..=opts.len().
OutOfRange(i) == Sel(i).some /\ ~(1 <= Sel(i).v /\ Sel(i).v <= Len(opts))

C7_Original ==
    (op = "wait_opts" /\ opts # << >>) =>
        \A i \in LineIdx :
            (~IsQuit(i) /\ OutOfRange(i))
                => Printed(i) = ErrSeq \o << PromptEv(p) >>

\* C7 as amended: in wait_opts an integer outside 1..=n makes the call retry
\* without returning, as a line that is no integer does, but the output
\* differs: the bounds diagnostic, then the whole option list again, then
\* the prompt; the error message is not printed for it.
C7_OutOfRangeRetries ==
    op = "wait_opts" =>
        \A i \in LineIdx :
            (~IsQuit(i) /\ OutOfRange(i)) =>
                /\ Printed(i) = << BoundsEv >> \o OptList \o << PromptEv(p) >>
                /\ Printed(i) # ErrSeq \o << PromptEv(p) >>
                /\ i = LastLineIdx => (pc = "reading" /\ ~result.some)

\* C7's case: 0 was entered with options offered and an error message set.
C7_Witness ==
    /\ op = "wait_opts" /\ opts = <<"Yes", "No">>
    /\ self.user_errmsg.some
    /\ pc = "reading"
    /\ LineIdx # {}
    /\ Trimmed(LastLineIdx) = <<"0">>

\* C8 as claimed: in wait_opts with options to choose from, whatever the
\* receiver's configuration, a line of text that is no integer is followed
\* by a diagnostic and then the prompt, and the call does not return.
C8_Original ==
    (op = "wait_opts" /\ opts # << >>) =>
        \A i \in LineIdx :
            (~IsQuit(i) /\ ~Sel(i).some /\ Trimmed(i) # << >>) =>
                /\ Len(Printed(i)) >= 2
                /\ Printed(i)[1].k \in { "errmsg", "bounds" }
                /\ Printed(i)[Len(Printed(i))] = PromptEv(p)
                /\ i = LastLineIdx => pc = "reading"

\* C8 as amended: in wait_opts a line that is no integer is followed by the
\* error message when the receiver has one, and by nothing when it has none,
\* then by the prompt (the option list is not printed again), and the call
\* does not return.
C8_NonNumericRetries ==
    op = "wait_opts" =>
        \A i \in LineIdx :
            (~IsQuit(i) /\ ~Sel(i).some) =>
                /\ Printed(i) = ErrSeq \o << PromptEv(p) >>
                /\ i = LastLineIdx => (pc = "reading" /\ ~result.some)

\* C8's case: "Yes" was entered with an error message set.
C8_Witness ==
    /\ op = "wait_opts" /\ opts = <<"Yes", "No">>
    /\ self.user_errmsg.some
    /\ pc = "reading"
    /\ LineIdx # {}
    /\ Trimmed(LastLineIdx) = <<"Y", "e", "s">>
    /\ Count(trace, "errmsg") = 1

\* C9: choose returns true exactly when the last line read is y or Y, false
\* exactly when it is n or N, and does not return on any other line; every
\* prompt it writes is "{p} [y/n] ".
C9_ChooseYesNo ==
    op = "choose" =>
        /\ \A i \in LineIdx :
              IF IsQuit(i) THEN pc = "exited"
              ELSE IF Trimmed(i) \in { <<"y">>, <<"Y">> }
              THEN i = LastLineIdx /\ pc = "done" /\ result = SomeVal(TRUE)
              ELSE IF Trimmed(i) \in { <<"n">>, <<"N">> }
              THEN i = LastLineIdx /\ pc = "done" /\ result = SomeVal(FALSE)
              ELSE i = LastLineIdx => (pc = "reading" /\ ~result.some)
        /\ pc = "done" => LineIdx # {}
        /\ \A i \in DOMAIN trace :
              trace[i].k = "prompt" =>
                  /\ trace[i].text = p \o " [y/n] "
                  /\ p = "Continue?" => trace[i].text = "Continue? [y/n] "
        /\ Count(trace, "prompt") >= 1

\* C9's case: after one other line, Y made choose return true.
C9_Witness ==
    /\ op = "choose"
    /\ pc = "done"
    /\ Attempts(trace) = 2
    /\ Trimmed(LastLineIdx) = <<"Y">>
    /\ result.v = TRUE

\* C10 as claimed: in choose every line that is not y, Y, n or N is followed
\* by the next prompt and nothing else, whether or not an error message is
\* configured.
C10_Original ==
    op = "choose" =>
        \A i \in LineIdx :
            (~IsQuit(i) /\ Trimmed(i) \notin { <<"y">>, <<"Y">>, <<"n">>, <<"N">> })
                => Printed(i) = << PromptEv(p \o " [y/n] ") >>

\* C10 as amended: in choose a single character other than y, Y, n, N is
\* followed by the next prompt and nothing else, also when an error message
\* is configured; a line that is not exactly one character (empty, "Yes") is
\* followed by the error message when one is configured, and by nothing when
\* none is, and then by the next prompt.  The call does not return on either.
C10_ChooseReprompt ==
    op = "choose" =>
        \A i \in LineIdx :
            (~IsQuit(i) /\ Trimmed(i) \notin { <<"y">>, <<"Y">>, <<"n">>, <<"N">> }) =>
                /\ Len(Trimmed(i)) = 1
                      => Printed(i) = << PromptEv(p \o " [y/n] ") >>
                /\ Len(Trimmed(i)) # 1
                      => Printed(i) = ErrSeq \o << PromptEv(p \o " [y/n] ") >>
                /\ i = LastLineIdx => pc = "reading"

\* C10's case: with an error message configured, choose read a digit and then
\* an empty line.
C10_Witness ==
    /\ op = "choose"
    /\ self.user_errmsg.some
    /\ pc = "reading"
    /\ Attempts(trace) = 2
    /\ \E i \in LineIdx : Len(Trimmed(i)) = 1
    /\ Trimmed(LastLineIdx) = << >>
    /\ Count(trace, "errmsg") = 1

\* C11: wait_opts and choose leave the receiver as the caller configured it,
\* through any number of retries and after they return: its prompt, quit
\* trigger and error message are unchanged (p is set on the clone only, which
\* inherits the trigger and the message), so every prompt a later read or
\* wait writes is the caller's own.
C11_ReceiverUnchanged ==
    /\ self = configured
    /\ op \in { "wait_opts", "choose" } =>
          /\ ic.user_quit = configured.user_quit
          /\ ic.user_errmsg = configured.user_errmsg
    /\ op \in { "read", "wait" } =>
          \A i \in DOMAIN trace :
              trace[i].k = "prompt" => trace[i].text = configured.user_prompt

\* C11's case: wait_opts returned after a retry on a receiver that has its
\* own prompt, trigger and message.
C11_Witness ==
    /\ op = "wait_opts"
    /\ pc = "done"
    /\ Attempts(trace) = 2
    /\ configured.user_prompt = "Enter: "
    /\ p # configured.user_prompt
    /\ configured.user_quit.some
    /\ configured.user_errmsg.some

\* The text s makes the operation in progress return.
Accepts(s) ==
    CASE op = "read" -> TRUE
      [] op = "wait" -> Parse(T, s).some
      [] op = "wait_opts" ->
             /\ Parse("usize", s).some
             /\ 1 <= Parse("usize", s).v /\ Parse("usize", s).v <= Len(opts)
      [] op = "choose" -> s \in { <<"y">>, <<"Y">>, <<"n">>, <<"N">> }
      [] OTHER -> FALSE

\* Where a call stands after a line whose trimmed text is s.
Outcome(s) ==
    IF self.user_quit.some /\ self.user_quit.v = s THEN "exited"
    ELSE IF Accepts(s) THEN "done"
    ELSE "reading"

IoErrEv(what) == Ev("ioerr", what, 0, <<>>)

\* Every failed flush and every failed read_line is followed at once by
\* handle_io's diagnostic, and no diagnostic appears otherwise.
Diagnosed ==
    /\ \A i \in DOMAIN trace :
          trace[i].k = "prompt" =>
              (flush_err <=> (i < Len(trace) /\ trace[i + 1] = IoErrEv("flush")))
    /\ \A i \in LineIdx :
          trace[i].text = "Err"
              <=> (i < Len(trace) /\ trace[i + 1] = IoErrEv("read_line"))
    /\ Count(trace, "ioerr") =
          (IF flush_err THEN Count(trace, "prompt") ELSE 0)
              + Cardinality({ i \in LineIdx : trace[i].text = "Err" })

\* C12 as claimed, for the flush: when the flush of an attempt failed (and the
\* read that followed did not), the attempt ends as it would on an empty
\* line, with the same return or retry and the same value.
C12_Original ==
    (flush_err /\ LineIdx # {} /\ trace[LastLineIdx].text = "Ok") =>
        /\ pc = Outcome(<< >>)
        /\ (pc = "done" /\ op = "read") => result.v = Parse(T, << >>)
        /\ (pc = "done" /\ op = "wait") => result = Parse(T, << >>)

\* C12 as amended: a failed flush or read_line is reported by a printed
\* diagnostic and nothing else: the process does not end (it exits only on
\* the quit trigger) and the call goes on.  After a failed flush the line is
\* read and handled as the line it is; after a failed read_line the buffer is
\* handled as the text it holds, which is an empty line when nothing was
\* read.
C12_IoFailureContinues ==
    /\ Diagnosed
    /\ LineIdx # {} =>
          /\ pc = Outcome(Trimmed(LastLineIdx))
          /\ (pc = "done" /\ op = "read")
                => result.v = Parse(T, Trimmed(LastLineIdx))
          /\ (pc = "done" /\ op = "wait")
                => result = Parse(T, Trimmed(LastLineIdx))
          /\ pc = "exited" <=> status = SomeVal(0)
    /\ \A i \in LineIdx : i # LastLineIdx => Outcome(Trimmed(i)) = "reading"

\* C12's case: with the flush failing, a wait for an i32 saw a failed read
\* that left nothing and then returned the number on the next line.
C12_Witness ==
    /\ op = "wait" /\ T = "i32"
    /\ flush_err
    /\ pc = "done"
    /\ Attempts(trace) = 2
    /\ \E i \in LineIdx : trace[i].text = "Err" /\ trace[i].raw = << >>
    /\ trace[LastLineIdx].text = "Ok"
    /\ result.v = 1

\* The read_line at position i failed and left nothing in the buffer.
FailedEmpty(i) == trace[i].text = "Err" /\ Trimmed(i) = << >>

\* The call asked again after the line at position i.
Retried(i) == \E j \in DOMAIN trace : j > i /\ trace[j].k = "prompt"

\* C13 as claimed: after a read_line failure that left nothing, at every
\* target type, read returns None and wait, wait_opts and choose do not
\* return on that attempt.
C13_Original ==
    (LineIdx # {} /\ FailedEmpty(LastLineIdx)) =>
        /\ op = "read" => (pc = "done" /\ result = SomeVal(NoneVal))
        /\ op \in { "wait", "wait_opts", "choose" } => pc # "done"

\* C13 as amended: after a read_line failure that left nothing in the buffer
\* (and with no quit trigger equal to the empty text), read returns None and
\* wait retries at every target type whose parser rejects the empty text
\* (i32, usize, char); at String, whose parser accepts it, read returns
\* Some("") and wait returns "" on that attempt.  wait_opts and choose always
\* retry.
C13_IoFailureAbsent ==
    \A i \in LineIdx :
        (FailedEmpty(i) /\ ~IsQuit(i)) =>
            CASE op = "read" ->
                     /\ i = LastLineIdx
                     /\ pc = "done"
                     /\ result = SomeVal(IF T = "String" THEN SomeVal(<< >>)
                                         ELSE NoneVal)
              [] op = "wait" /\ T = "String" ->
                     /\ i = LastLineIdx
                     /\ pc = "done"
                     /\ result = SomeVal(<< >>)
              [] OTHER ->
                     /\ Retried(i)
                     /\ i = LastLineIdx => (pc = "reading" /\ result = NoneVal)

\* C13's case: a wait for a String returned on a failed read.
C13_Witness ==
    /\ op = "wait" /\ T = "String"
    /\ pc = "done"
    /\ FailedEmpty(LastLineIdx)
    /\ result = SomeVal(<< >>)

\* C14: the process ends only through check_quit.  It has exited exactly when
\* a status was passed to exit; then a quit trigger is set, the last line
\* read trims to it, and the status is 0.  With no quit trigger set the
\* process never exits, whatever lines arrive and whatever I/O fails.
C14_OnlyQuitExits ==
    /\ pc = "exited" <=> status.some
    /\ pc = "exited" =>
          /\ self.user_quit.some
          /\ LineIdx # {}
          /\ Trimmed(LastLineIdx) = self.user_quit.v
          /\ status = SomeVal(QuitStatus)
    /\ ~self.user_quit.some => (pc # "exited" /\ status = NoneVal)

\* C14's case: with no quit trigger set, a call has read the line "quit" and
\* a failed read, and is still asking.
C14_Witness ==
    /\ ~self.user_quit.some
    /\ pc = "reading"
    /\ Attempts(trace) = 2
    /\ \E i \in LineIdx : Trimmed(i) = <<"q", "u", "i", "t">>
    /\ \E i \in LineIdx : trace[i].text = "Err"

\* The line at position i is empty once trimmed: a bare terminator, blanks,
\* or nothing at all at end of input.
EmptyLine(i) == Trimmed(i) = << >>

\* C15 as claimed, for empty input: a wait that has read only empty lines and
\* ends of input, none of them the quit trigger, has not returned.
C15_Original ==
    (op = "wait" /\ LineIdx # {}
        /\ \A i \in LineIdx : EmptyLine(i) /\ ~IsQuit(i))
    => pc # "done"

\* C15 as amended: wait counts no retries.  Each line that is neither the
\* quit trigger nor parses as T is followed by one more prompt, and while
\* every line so far is such a line the call is still reading, having
\* prompted once more than it has read; the first line that parses as T, no
\* quit line before it, is the last one read and wait returns its value.  At
\* every T but String an empty line or end of input is such an invalid line;
\* at String it parses, and wait returns "".
C15_WaitUnbounded ==
    op = "wait" =>
        /\ \A i \in LineIdx :
              IF IsQuit(i) THEN i = LastLineIdx /\ pc = "exited"
              ELSE IF Parse(T, Trimmed(i)).some
              THEN /\ i = LastLineIdx
                   /\ pc = "done"
                   /\ result = Parse(T, Trimmed(i))
              ELSE /\ Retried(i)
                   /\ i = LastLineIdx => pc = "reading"
        /\ (\A i \in LineIdx : ~IsQuit(i) /\ ~Parse(T, Trimmed(i)).some) =>
              /\ pc = "reading"
              /\ Count(trace, "prompt") = Attempts(trace) + 1
        /\ \A i \in LineIdx :
              (EmptyLine(i) /\ ~IsQuit(i)) =>
                  IF T = "String"
                  THEN i = LastLineIdx /\ pc = "done" /\ result = SomeVal(<< >>)
                  ELSE Retried(i)

\* C15's case: a wait for an i32 has read two lines, an end of input among
\* them, none valid, and has prompted a third time.
C15_Witness ==
    /\ op = "wait" /\ T = "i32"
    /\ pc = "reading"
    /\ Attempts(trace) = 2
    /\ Count(trace, "prompt") = 3
    /\ \E i \in LineIdx : trace[i].raw = << >> /\ trace[i].text = "Ok"
    /\ \A i \in LineIdx : ~Parse(T, Trimmed(i)).some

\* C16: wait_opts on an empty opts never returns and never indexes opts.  It
\* lists nothing; every line that is not the quit trigger is followed by a
\* new prompt, every integer among them by the bounds message for 1..=0; and
\* the call is over only when the process has exited on the quit trigger.
C16_EmptyOptsNeverReturns ==
    (op = "wait_opts" /\ opts = << >>) =>
        /\ pc \in { "reading", "exited" }
        /\ result = NoneVal
        /\ index = NoneVal
        /\ Count(trace, "opt") = 0
        /\ pc = "exited" => (LineIdx # {} /\ IsQuit(LastLineIdx))
        /\ \A i \in LineIdx :
              ~IsQuit(i) =>
                  /\ Retried(i)
                  /\ Sel(i).some =>
                        Printed(i) = << Ev("bounds", "", 0, << >>),
                                        PromptEv(p) >>

\* C16's case: on an empty opts, wait_opts has been given 0 and then 1 and
\* is asking a third time.
C16_Witness ==
    /\ op = "wait_opts" /\ opts = << >>
    /\ pc = "reading"
    /\ Attempts(trace) = 2
    /\ Count(trace, "bounds") = 2
    /\ \E i \in LineIdx : Sel(i) = SomeVal(0)
    /\ \E i \in LineIdx : Sel(i) = SomeVal(1)

\* The prompt text of the Input the operation in progress reads through.
CurrentPrompt ==
    CASE op \in { "read", "wait" } -> self.user_prompt
      [] op = "wait_opts" -> p
      [] op = "choose" -> yn_prompt(p)
      [] OTHER -> ""

\* Position j comes after the read of some line with no prompt in between.
AfterItsLine(j) ==
    \E i \in LineIdx :
        /\ i < j
        /\ \A l \in (i + 1)..(j - 1) : trace[l].k # "prompt"

\* C17 as claimed: the event just before each line read is the write of the
\* current prompt, a call has written as many prompts as it has made read
\* attempts, and every error message and every I/O diagnostic comes after
\* the line of its attempt and before the next prompt.
C17_Original ==
    /\ \A i \in LineIdx : i > 1 /\ trace[i - 1] = PromptEv(CurrentPrompt)
    /\ Count(trace, "prompt") =
          Attempts(trace) + (IF pc = "reading" THEN 1 ELSE 0)
    /\ \A j \in DOMAIN trace :
          trace[j].k \in { "errmsg", "bounds", "ioerr" } => AfterItsLine(j)

\* C17 as amended: each line read has its own write of the current prompt
\* before it, with nothing in between but the diagnostic of that prompt's
\* flush when the flush failed; a call has written as many prompts as it has
\* made read attempts, the one it is blocked in included; every error
\* message, bounds message and read_line diagnostic comes after the line of
\* its attempt and before the next prompt, and every flush diagnostic comes
\* right after the prompt it belongs to, before the line is read.
C17_PromptBeforeRead ==
    /\ \A i \in LineIdx :
          IF flush_err
          THEN /\ i > 2
               /\ trace[i - 1] = IoErrEv("flush")
               /\ trace[i - 2] = PromptEv(CurrentPrompt)
          ELSE /\ i > 1
               /\ trace[i - 1] = PromptEv(CurrentPrompt)
    /\ Count(trace, "prompt") =
          Attempts(trace) + (IF pc = "reading" THEN 1 ELSE 0)
    /\ \A j \in DOMAIN trace :
          /\ (trace[j].k \in { "errmsg", "bounds" }
                 \/ trace[j] = IoErrEv("read_line")) => AfterItsLine(j)
          /\ trace[j] = IoErrEv("flush") =>
                 (j > 1 /\ trace[j - 1].k = "prompt")

\* C17's case: with the flush failing, a wait with an error message set has
\* made three read attempts, one of them a failed read, and printed the error
\* message.
C17_Witness ==
    /\ op = "wait"
    /\ flush_err
    /\ pc = "reading"
    /\ Attempts(trace) = 2
    /\ Count(trace, "prompt") = 3
    /\ Count(trace, "errmsg") >= 1
    /\ \E i \in LineIdx : trace[i].text = "Err"

\* The lines so far that wait_opts parsed to an integer out of bounds.
OutOfRangeLines == { i \in LineIdx : OutOfRange(i) /\ ~IsQuit(i) }

\* The "opt" events among the events of tr.
IsOpt(e) == e.k = "opt"
OptsIn(tr) == SelectSeq(tr, IsOpt)

\* C18: wait_opts prints the numbered list, "1. " to "n. " in slice order,
\* once before the first prompt and once more after each integer out of
\* bounds, and not after a line that does not parse: at every point of the
\* call, its return included, the list has been printed one time more than
\* integers out of bounds were entered.
C18_ListPrintedPerRound ==
    op = "wait_opts" =>
        /\ SubSeq(trace, 1, Len(opts) + 1) = OptList \o << PromptEv(p) >>
        /\ Count(trace, "opt") = Len(opts) * (1 + Cardinality(OutOfRangeLines))
        /\ \A i \in LineIdx :
              OptsIn(Printed(i)) =
                  (IF i \in OutOfRangeLines THEN OptList ELSE << >>)

\* C18's case: wait_opts on two options returned after a number out of
\* bounds, having listed the options twice.
C18_Witness ==
    /\ op = "wait_opts" /\ Len(opts) = 2
    /\ pc = "done"
    /\ Cardinality(OutOfRangeLines) = 1
    /\ Count(trace, "opt") = 4

\* C18's other case: a line that is no number did not bring the list back.
C18_WitnessNonNumeric ==
    /\ op = "wait_opts" /\ Len(opts) = 2
    /\ pc = "done"
    /\ \E i \in LineIdx : ~Sel(i).some
    /\ Count(trace, "opt") = 2

====
